---------------------------- MODULE Spec2Model ----------------------------
(***************************************************************************)
(* A model of the ClimateHack23 solar-forecasting resources:               *)
(*   dataset.py      Dataset.__init__, Dataset._get_image_times and        *)
(*                   Dataset.__iter__ (the windowed sample extractor);     *)
(*   Resnet_model.py ResNetModel.__init__ and ResNetModel.forward, as far  *)
(*                   as names, tensor shapes and the fc layer go.          *)
(* Arrays and tensors are modelled by their shapes (sequences of sizes),   *)
(* datetimes by minutes since day 0 of the proleptic Gregorian calendar    *)
(* (ordinal * 1440 + minute of day), exceptions by their class names.      *)
(***************************************************************************)
EXTENDS Integers, Sequences, FiniteSets, TLC

VARIABLES
    args,       \* the arguments Dataset(...) is called with
    self,       \* the Dataset object's fields, once __init__ has run
    ctor,       \* "pending" | "ok" | the exception __init__ raised
    times,      \* a consumer of self._get_image_times(): generator and list
    it,         \* the generators returned by iter(dataset), by iterator id
    finished,   \* the sample sequences of the iterations that ran to the end
    ns,         \* the names bound in the namespace Resnet_model.py runs in
    module,     \* "unloaded" | "loaded" | the exception its execution raised
    net,        \* the ResNetModel instance (its fc layer), when constructed
    call        \* the last forward call: its inputs and its outcome

vars == <<args, self, ctor, times, it, finished, ns, module, net, call>>

dsVars == <<args, self, ctor, times, it, finished>>
netVars == <<ns, module, net, call>>

-----------------------------------------------------------------------------
(* Bounds of the model *)

\* the imagery grid is GridSize x GridSize pixels
GridSize == 3
\* crop_size ranges over 0..MaxCrop
MaxCrop == 2
\* horizon ranges over 1..MaxHorizon
MaxHorizon == 2
\* batch sizes of forward calls range over 1..MaxBatch
MaxBatch == 2
\* at most MaxCalls forward calls are made on one model
MaxCalls == 3
\* an abandoned iterator is restarted at most MaxRestarts times
MaxRestarts == 1

-----------------------------------------------------------------------------
(* Python values *)

None == [none |-> TRUE]

\* a part of a date string that int() rejects ("x"); "-" separates the parts,
\* so no part of a split date string is a negative number
NonNumeric == -1

Last(s) == s[Len(s)]
Front(s) == SubSeq(s, 1, Len(s) - 1)
Range(s) == {s[k] : k \in 1..Len(s)}
Min(a, b) == IF a < b THEN a ELSE b
Max(a, b) == IF a > b THEN a ELSE b

-----------------------------------------------------------------------------
(* datetime *)

IsLeap(y) == y % 4 = 0 /\ (y % 100 # 0 \/ y % 400 = 0)

DaysInMonth(y, m) ==
    IF m = 2 THEN (IF IsLeap(y) THEN 29 ELSE 28)
    ELSE IF m \in {4, 6, 9, 11} THEN 30 ELSE 31

DaysBeforeYear(y) ==
    (y - 1) * 365 + ((y - 1) \div 4) - ((y - 1) \div 100) + ((y - 1) \div 400)

RECURSIVE DaysBeforeMonth(_, _)
DaysBeforeMonth(y, m) ==
    IF m <= 1 THEN 0 ELSE DaysBeforeMonth(y, m - 1) + DaysInMonth(y, m - 1)

\* datetime(y, m, d): ValueError unless the triple is a calendar date
ValidDate(y, m, d) ==
    /\ y \in 1..9999
    /\ m \in 1..12
    /\ d \in 1..DaysInMonth(y, m)

Ordinal(y, m, d) == DaysBeforeYear(y) + DaysBeforeMonth(y, m) + d

\* datetime(lst[0], lst[1], lst[2]) of a list of ints
DatetimeOf(lst) ==
    IF Len(lst) < 3 THEN [ok |-> FALSE, exc |-> "IndexError"]
    ELSE IF ~ValidDate(lst[1], lst[2], lst[3])
         THEN [ok |-> FALSE, exc |-> "ValueError"]
    ELSE [ok |-> TRUE, dt |-> Ordinal(lst[1], lst[2], lst[3]) * 1440]

\* datetime.combine(date, time): the day of date at the minute of day t
Combine(date, t) == (date \div 1440) * 1440 + t

\* datetime.time(): the minute of the day
TimeOf(dt) == dt % 1440

\* str(datetime): "Y-m-d H:M:S" of a datetime with no seconds, kept as
\* <<ordinal, hour, minute>>
StrOf(dt) == <<dt \div 1440, (dt % 1440) \div 60, dt % 60>>

\* the timestamp a time index parses such a string to
Timestamp(s) == s[1] * 1440 + s[2] * 60 + s[3]

-----------------------------------------------------------------------------
(* Dataset.__init__ *)

\* list(map(int, s.split("-"))): a date string is given as its parts
ParseDate(s) ==
    IF \E k \in 1..Len(s) : s[k] = NonNumeric
    THEN [ok |-> FALSE, exc |-> "ValueError"]
    ELSE [ok |-> TRUE, val |-> s]

\* `sites if sites else list(site_locations["hrv"].keys())`
\* (None and [] are both falsy: an omitted sites argument is given as <<>>)
SitesOf(a) ==
    IF a.sites = <<>>
    THEN a.site_locations.keys
    ELSE a.sites

DatasetInit(a) ==
    LET sd == ParseDate(a.start_date)
        ed == ParseDate(a.end_date)
    IN  IF ~sd.ok THEN [ok |-> FALSE, exc |-> sd.exc]
        ELSE IF ~ed.ok THEN [ok |-> FALSE, exc |-> ed.exc]
        ELSE [ok |-> TRUE,
              obj |-> [pv |-> a.pv,
                       hrv |-> a.hrv,
                       site_locations |-> a.site_locations,
                       is_incident |-> a.is_incident,
                       sites |-> SitesOf(a),
                       start_date |-> sd.val,
                       end_date |-> ed.val,
                       crop_size |-> a.crop_size,
                       horizon |-> a.horizon]]

Construct ==
    /\ ctor = "pending"
    /\ LET r == DatasetInit(args)
       IN  /\ ctor' = (IF r.ok THEN "ok" ELSE r.exc)
           /\ self' = (IF r.ok THEN r.obj ELSE None)
    /\ UNCHANGED <<args, times, it, finished>>
    /\ UNCHANGED netVars

-----------------------------------------------------------------------------
(* Dataset._get_image_times: a generator *)

\* time(8)
start_time == 8 * 60
\* (a day that ends its anchors an hour early)
end_time_16 == 16 * 60
\* time(17)
end_time == 17 * 60

NewGen == [pc |-> "created", date |-> 0, max_date |-> 0, current_time |-> 0]

\* The loops of lines 27-35 from one of their tests to the next yield or to
\* the end: at "outer" the test of `while date <= max_date`, at "inner" the
\* test of `while current_time.time() < end_time`.
RECURSIVE RunTimes(_, _, _, _)
RunTimes(at, date, max_date, current_time) ==
    IF at = "outer"
    THEN IF date <= max_date
         THEN RunTimes("inner", date, max_date, Combine(date, start_time))
         ELSE [pc |-> "exhausted", date |-> date, max_date |-> max_date,
               current_time |-> current_time]
    ELSE IF TimeOf(current_time) < end_time
         THEN [pc |-> "yielded", date |-> date, max_date |-> max_date,
               current_time |-> current_time]
         ELSE RunTimes("outer", date + 1440, max_date, current_time)

\* next() on the generator g of self._get_image_times(): the generator after
\* it, at a yield ("yielded", the anchor in current_time), finished
\* ("exhausted") or ended by an exception ("raised")
get_image_times(obj, g) ==
    IF g.pc = "created"
    THEN LET mn == DatetimeOf(obj.start_date)
             mx == DatetimeOf(obj.end_date)
         IN  IF ~mn.ok THEN [g EXCEPT !.pc = "raised"] @@ [exc |-> mn.exc]
             ELSE IF ~mx.ok THEN [g EXCEPT !.pc = "raised"] @@ [exc |-> mx.exc]
             ELSE RunTimes("outer", mn.dt, mx.dt, g.current_time)
    ELSE IF g.pc = "yielded"
    THEN RunTimes("inner", g.date, g.max_date, g.current_time + 60)
    ELSE g

\* One next() of a consumer that lists self._get_image_times()
TimesNext ==
    /\ ctor = "ok"
    /\ times.gen.pc \in {"created", "yielded"}
    /\ LET g == get_image_times(self, times.gen)
       IN  times' = [gen |-> g,
                     list |-> IF g.pc = "yielded"
                              THEN Append(times.list, g.current_time)
                              ELSE times.list]
    /\ UNCHANGED <<args, self, ctor, it, finished>>
    /\ UNCHANGED netVars

-----------------------------------------------------------------------------
(* The collaborators: the PV table (pandas) and the imagery cube (xarray) *)

\* The PV table holds a row for (t, site) at every 5-minute tick t of
\* pv.from..pv.to and every site of pv.sites, but for the keys in pv.missing;
\* pv.columns are its column names.  These are the timestamps of the rows of
\* `site` in the inclusive label slice lo..hi of the time level.
PVRows(pv, lo, hi, site) ==
    {t \in lo..hi : /\ pv.from <= t /\ t <= pv.to
                    /\ (t - pv.from) % 5 = 0
                    /\ site \in pv.sites
                    /\ <<t, site>> \notin pv.missing}

\* The imagery cube holds a frame of hrv.H x hrv.W x hrv.C values at every
\* 5-minute tick of hrv.from..hrv.to but those in hrv.missing.
\* hrv["data"].sel(time=slice(lo, hi)).to_numpy(): its shape
HRVSel(hrv, lo, hi) ==
    LET ticks == {t \in lo..hi : /\ hrv.from <= t /\ t <= hrv.to
                                 /\ (t - hrv.from) % 5 = 0
                                 /\ t \notin hrv.missing}
    IN  <<Cardinality(ticks), hrv.H, hrv.W, hrv.C>>

\* frame[[c1, c2]]: KeyError unless every name is a column
SelectColumns(view, names) ==
    IF Range(names) \subseteq Range(view.columns)
    THEN [ok |-> TRUE, val |-> [view EXCEPT !.columns = names]]
    ELSE [ok |-> FALSE, exc |-> "KeyError"]

\* frame["power"]: a Series; KeyError unless the name is a column
SelectSeries(view, name) ==
    IF name \in Range(view.columns)
    THEN [ok |-> TRUE, val |-> [view EXCEPT !.series = TRUE, !.columns = <<name>>]]
    ELSE [ok |-> FALSE, exc |-> "KeyError"]

\* pv.xs(slice(str(a), str(b)), drop_level=False): the rows of the window,
\* all columns, the site level kept
XsTime(pv, a, b) ==
    [lo |-> Timestamp(StrOf(a)), hi |-> Timestamp(StrOf(b)),
     columns |-> pv.columns, series |-> FALSE]

\* view.xs(site, level=1).to_numpy(): KeyError when the site has no row in
\* the view, else the shape of the array
XsSiteToNumpy(pv, view, site) ==
    LET n == Cardinality(PVRows(pv, view.lo, view.hi, site))
    IN  IF n = 0 THEN [ok |-> FALSE, exc |-> "KeyError"]
        ELSE [ok |-> TRUE,
              shape |-> IF view.series THEN <<n>> ELSE <<n, Len(view.columns)>>]

\* ndarray.squeeze(-1): ValueError unless the last axis has size 1
Squeeze(shape) ==
    IF Len(shape) = 0 THEN [ok |-> FALSE, exc |-> "AxisError"]
    ELSE IF Last(shape) # 1 THEN [ok |-> FALSE, exc |-> "ValueError"]
    ELSE [ok |-> TRUE, shape |-> Front(shape)]

\* the length of a[start:stop] on an axis of size n
SliceLen(start, stop, n) ==
    LET s == IF start < 0 THEN Max(start + n, 0) ELSE Min(start, n)
        e == IF stop < 0 THEN Max(stop + n, 0) ELSE Min(stop, n)
    IN  Max(e - s, 0)

\* pd.date_range(start, end, freq='5min').strftime(...).tolist()
DateRange(start, end) ==
    IF end < start THEN <<>>
    ELSE [k \in 1..((end - start) \div 5 + 1) |-> StrOf(start + 5 * (k - 1))]

-----------------------------------------------------------------------------
(* Dataset.__iter__ *)

NoIter == [pc |-> "none", starts |-> 0]

\* (a generator of anchors kept by the Dataset and shared by its iterations:
\* a new iteration goes on where the first iterator's stands)
NewIterSharedTimes(n) ==
    [pc |-> "times", starts |-> n,
     gen |-> IF it[1].pc = "none" THEN NewGen ELSE it[1].gen, time |-> 0,
     time_ids |-> <<>>, pv_features |-> None, pv_targets |-> None,
     hrv_data |-> <<>>, k |-> 0, out |-> <<>>, log |-> <<>>]

\* iter(dataset): a new generator; nothing of its body has run
NewIter(n) ==
    [pc |-> "times", starts |-> n, gen |-> NewGen, time |-> 0,
     time_ids |-> <<>>, pv_features |-> None, pv_targets |-> None,
     hrv_data |-> <<>>, k |-> 0, out |-> <<>>, log |-> <<>>]

\* lines 41-67: what is looked up once per anchor, outside the try
PerAnchor(obj, time) ==
    LET time_ids == DateRange(time + 60, time + 60 * obj.horizon + 55)
        first == XsTime(obj.pv, time, time + 55)
        feats == IF obj.is_incident
                 THEN SelectColumns(first, <<"power", "angle_of_incidence_radians">>)
                 ELSE [ok |-> TRUE, val |-> first]
        targ0 == XsTime(obj.pv, time + 60, time + 60 * obj.horizon + 55)
        targ == IF obj.is_incident
                THEN SelectSeries(targ0, "power")
                ELSE [ok |-> TRUE, val |-> targ0]
    IN  IF ~feats.ok THEN [ok |-> FALSE, exc |-> feats.exc]
        ELSE IF ~targ.ok THEN [ok |-> FALSE, exc |-> targ.exc]
        ELSE IF "data" \notin obj.hrv.vars THEN [ok |-> FALSE, exc |-> "KeyError"]
        ELSE [ok |-> TRUE,
              time_ids |-> time_ids,
              pv_features |-> feats.val,
              pv_targets |-> targ.val,
              hrv_data |-> HRVSel(obj.hrv, Timestamp(StrOf(time)),
                                  Timestamp(StrOf(time + 55)))]

\* (the assertion without its test of the targets)
ShapeAssertFeaturesOnly(obj, site_features, site_targets) ==
    IF obj.is_incident THEN site_features = <<12, 2>> ELSE site_features = <<12>>

\* lines 76-79
ShapeAssert(obj, site_features, site_targets) ==
    IF obj.is_incident
    THEN site_features = <<12, 2>> /\ site_targets = <<12 * obj.horizon>>
    ELSE site_features = <<12>> /\ site_targets = <<12 * obj.horizon>>

\* lines 83-84: hrv_data[:, y-c : y+c, x-c : x+c, 0]
Crop(hrv_data, x, y, c) ==
    IF Len(hrv_data) # 4 \/ hrv_data[4] < 1
    THEN [ok |-> FALSE, exc |-> "IndexError"]
    ELSE [ok |-> TRUE,
          shape |-> <<hrv_data[1],
                      SliceLen(y - c, y + c, hrv_data[2]),
                      SliceLen(x - c, x + c, hrv_data[3])>>]

\* (the assertion without its test of the 12 frames)
CropAssertSpaceOnly(obj, hrv_features) ==
    Tail(hrv_features) = <<obj.crop_size, obj.crop_size>>

\* line 85
CropAssert(obj, hrv_features) ==
    hrv_features = <<12, obj.crop_size, obj.crop_size>>

\* lines 73-74: view.xs(site, level=1).to_numpy().squeeze(-1)
SiteArray(r) == IF r.ok THEN Squeeze(r.shape) ELSE r

\* line 85 on the crop c of lines 83-84
TryCrop(obj, c) ==
    IF ~c.ok THEN [ok |-> FALSE, exc |-> c.exc, at |-> "crop"]
    ELSE IF ~CropAssert(obj, c.shape)
    THEN [ok |-> FALSE, exc |-> "AssertionError", at |-> "hrv_shape"]
    ELSE [ok |-> TRUE, hrv_features |-> c.shape]

\* lines 76-85, with the arrays f and t of lines 73-74
TryArrays(obj, l, site, f, t) ==
    LET loc == obj.site_locations.loc
    IN  IF ~f.ok THEN [ok |-> FALSE, exc |-> f.exc, at |-> "site_features"]
        ELSE IF ~t.ok THEN [ok |-> FALSE, exc |-> t.exc, at |-> "site_targets"]
        ELSE IF ~ShapeAssert(obj, f.shape, t.shape)
             THEN [ok |-> FALSE, exc |-> "AssertionError", at |-> "pv_shape"]
        ELSE IF site \notin DOMAIN loc
             THEN [ok |-> FALSE, exc |-> "KeyError", at |-> "site_locations"]
        ELSE TryCrop(obj, Crop(l.hrv_data, loc[site][1], loc[site][2],
                               obj.crop_size))
                 @@ [site_features |-> f.shape, site_targets |-> t.shape]

\* lines 71-88: the body of the try for one site; ok with the three arrays,
\* or the exception the bare except swallows and the place it came from
TrySite(obj, l, site) ==
    TryArrays(obj, l, site,
              SiteArray(XsSiteToNumpy(obj.pv, l.pv_features, site)),
              SiteArray(XsSiteToNumpy(obj.pv, l.pv_targets, site)))

\* how an iteration ended, for the record of finished iterations
Ended(g) == [out |-> g.out, exc |-> IF g.pc = "raised" THEN g.exc ELSE "StopIteration"]

\* iter(dataset)
Iter(i) ==
    /\ ctor = "ok"
    /\ it[i].pc = "none"
    /\ it' = [it EXCEPT ![i] = NewIter(1)]
    /\ UNCHANGED <<args, self, ctor, times, finished>>
    /\ UNCHANGED netVars

\* the consumer drops generator i, complete or not, and calls iter(dataset)
\* again
Restart(i) ==
    /\ it[i].pc # "none"
    /\ it[i].starts <= MaxRestarts
    /\ it' = [it EXCEPT ![i] = NewIter(it[i].starts + 1)]
    /\ UNCHANGED <<args, self, ctor, times, finished>>
    /\ UNCHANGED netVars

\* the generator after line 38 got the anchor g.current_time from the
\* generator of anchors g and lines 41-67 looked up a
AfterAnchor(l, obj, g, a) ==
    IF ~a.ok
    THEN [l EXCEPT !.pc = "raised", !.gen = g, !.time = g.current_time]
             @@ [exc |-> a.exc]
    ELSE [l EXCEPT !.pc = IF obj.sites = <<>> THEN "times" ELSE "sites",
                   !.gen = g,
                   !.time = g.current_time,
                   !.time_ids = a.time_ids,
                   !.pv_features = a.pv_features,
                   !.pv_targets = a.pv_targets,
                   !.hrv_data = a.hrv_data,
                   !.k = 1]

\* line 38: the generator of anchors resumed: it raises, it is exhausted, or
\* it yields the next anchor
AfterTimes(l, obj, g) ==
    IF g.pc = "raised" THEN [l EXCEPT !.pc = "raised", !.gen = g] @@ [exc |-> g.exc]
    ELSE IF g.pc = "exhausted" THEN [l EXCEPT !.pc = "done", !.gen = g]
    ELSE AfterAnchor(l, obj, g, PerAnchor(obj, g.current_time))

\* line 38 and lines 41-67
AnchorStep(i) ==
    /\ it[i].pc = "times"
    /\ \E nxt \in {AfterTimes(it[i], self, get_image_times(self, it[i].gen))} :
          /\ it' = [it EXCEPT ![i] = nxt]
          /\ finished' = IF nxt.pc \in {"done", "raised"}
                         THEN finished \cup {Ended(nxt)}
                         ELSE finished
    /\ UNCHANGED <<args, self, ctor, times>>
    /\ UNCHANGED netVars

\* the generator after the try of lines 71-88 ended as r for the site at k
AfterSite(l, obj, r) ==
    LET site_id == obj.sites[l.k]
        sample == [time_ids |-> l.time_ids, site_id |-> site_id,
                   site_features |-> r.site_features,
                   hrv_features |-> r.hrv_features,
                   site_targets |-> r.site_targets]
    IN  [l EXCEPT !.out = IF r.ok THEN Append(l.out, sample) ELSE l.out,
                  !.log = Append(l.log, [time |-> l.time, site |-> site_id,
                                         res |-> IF r.ok THEN "yield" ELSE r.at]),
                  !.k = l.k + 1,
                  !.pc = IF l.k + 1 > Len(obj.sites) THEN "times" ELSE "sites"]

\* lines 69-90 for one site: the sample is yielded, or the pair is skipped
SiteStep(i) ==
    /\ it[i].pc = "sites"
    /\ it' = [it EXCEPT ![i] =
                 AfterSite(it[i], self, TrySite(self, it[i], self.sites[it[i].k]))]
    /\ UNCHANGED <<args, self, ctor, times, finished>>
    /\ UNCHANGED netVars

-----------------------------------------------------------------------------
(* Resnet_model.py *)

\* the names the file binds at its top level (lines 1-31) before and while
\* it defines ResNetModel
FileNames ==
    {"torch", "nn", "device", "layers", "conv_block", "BasicBlock", "ResNetModel"}

\* a name read at module or function level resolves in the globals: what the
\* file has bound, and what the namespace it runs in bound before (ns)
Bound(name) == name \in FileNames \/ name \in DOMAIN ns

\* Executing the file.  `def forward(self, hrv, pv=pv, pv_inc=pv_inc,
\* use_pv_inc=use_pv_inc)` (line 60) evaluates its defaults in the class body
\* when the class statement runs: NameError at the first that is not bound.
ExecModule ==
    /\ module = "unloaded"
    /\ module' = IF Bound("pv") /\ Bound("pv_inc") /\ Bound("use_pv_inc")
                 THEN "loaded" ELSE "NameError"
    /\ UNCHANGED <<ns, net, call>>
    /\ UNCHANGED dsVars

\* nn.Linear(i, o); alloc numbers the layers this model has allocated
Linear(i, o, n) == [in_features |-> i, out_features |-> o, alloc |-> n]

\* ResNetModel(BasicBlock, layers, predict_length=p): lines 35-45.  The
\* module is in training mode, as every new nn.Module is.
ResNetInit(p) ==
    [fc |-> Linear(96 + 12, p, 1), training |-> TRUE, predict_length |-> p,
     calls |-> 0]

NewModel(p) ==
    /\ module = "loaded"
    /\ net = None
    /\ net' = ResNetInit(p)
    /\ UNCHANGED <<ns, module, call>>
    /\ UNCHANGED dsVars

\* nn.Module.eval(): the normalisation layers stop using batch statistics
Eval ==
    /\ net # None
    /\ net.training
    /\ net' = [net EXCEPT !.training = FALSE]
    /\ UNCHANGED <<ns, module, call>>
    /\ UNCHANGED dsVars

RECURSIVE Prod(_)
Prod(shape) == IF shape = <<>> THEN 1 ELSE shape[1] * Prod(Tail(shape))

\* lines 62-70: the four stages of BasicBlocks and the pooling.  A stage's
\* first Conv2d takes 12 channels of a 4-d input; in training mode
\* BatchNorm2d wants more than one value per channel; BasicBlock.forward
\* ends with F.relu (line 29), and F is bound nowhere in the file.
Features(hrv, training) ==
    IF Len(hrv) # 4 \/ hrv[2] # 12
    THEN [ok |-> FALSE, exc |-> "RuntimeError"]
    ELSE IF training /\ hrv[1] * hrv[3] * hrv[4] = 1
    THEN [ok |-> FALSE, exc |-> "ValueError"]
    ELSE IF ~Bound("F")
    THEN [ok |-> FALSE, exc |-> "NameError"]
    ELSE [ok |-> TRUE, shape |-> <<hrv[1], 96, 1, 1>>]

\* torch.flatten(t, 1)
Flatten1(shape) ==
    IF Len(shape) < 2 THEN [ok |-> FALSE, exc |-> "IndexError"]
    ELSE [ok |-> TRUE, shape |-> <<shape[1], Prod(Tail(shape))>>]

\* torch.cat((a, b), dim=1) of two tensors
Cat1(a, b) ==
    IF Len(a) # Len(b) \/ Len(a) < 2 \/ a[1] # b[1] \/ Tail(Tail(a)) # Tail(Tail(b))
    THEN [ok |-> FALSE, exc |-> "RuntimeError"]
    ELSE [ok |-> TRUE, shape |-> <<a[1], a[2] + b[2]>> \o Tail(Tail(a))]

\* Python values that reach forward: None, a bool, an int, a tensor (shape)
PyNone == [t |-> "None"]
Bool(b) == [t |-> "bool", v |-> b]
Int_(n) == [t |-> "int", v |-> n]
Tensor(shape) == [t |-> "tensor", shape |-> shape]

\* the truth value `if v:` takes of None or of a bool
Truthy(v) == v.t = "bool" /\ v.v

\* lines 71-83: the fusion of the pooled features x with the PV input
Combined(x, pv, pv_inc, use_pv_inc) ==
    IF Truthy(use_pv_inc)
    THEN IF pv_inc.t # "tensor" THEN [ok |-> FALSE, exc |-> "TypeError"]
         ELSE IF Len(pv_inc.shape) < 3 THEN [ok |-> FALSE, exc |-> "IndexError"]
         ELSE LET power == <<pv_inc.shape[1], pv_inc.shape[2]>>
                               \o Tail(Tail(Tail(pv_inc.shape)))
                  c1 == Cat1(x, power)
              IN  IF c1.ok THEN Cat1(c1.shape, power) ELSE c1
    ELSE IF pv.t # "tensor" THEN [ok |-> FALSE, exc |-> "TypeError"]
    ELSE LET fx == Flatten1(x)
             fp == Flatten1(pv.shape)
         IN  IF ~fp.ok THEN fp ELSE Cat1(fx.shape, fp.shape)

\* lines 96-97: the fc layer after the width test; predict_length is no
\* local of forward and no attribute: it is read from the globals
FcFor(fc, width) ==
    IF fc.in_features = width THEN [ok |-> TRUE, fc |-> fc]
    ELSE IF ~Bound("predict_length") THEN [ok |-> FALSE, exc |-> "NameError"]
    ELSE [ok |-> TRUE, fc |-> Linear(width, ns["predict_length"].v, fc.alloc + 1)]

\* line 99: fc(combined), on the last axis
ApplyFc(fc, combined) ==
    IF Last(combined) # fc.in_features
    THEN [ok |-> FALSE, exc |-> "RuntimeError"]
    ELSE [ok |-> TRUE, shape |-> Front(combined) \o <<fc.out_features>>]

\* ResNetModel.forward: the outcome, and the fc layer the model is left with
ForwardOf(m, hrv, pv, pv_inc, use_pv_inc) ==
    LET x == Features(hrv, m.training)
        c == IF x.ok THEN Combined(x.shape, pv, pv_inc, use_pv_inc) ELSE x
        f == IF c.ok THEN FcFor(m.fc, c.shape[2]) ELSE c
        o == IF f.ok THEN ApplyFc(f.fc, c.shape) ELSE f
    IN  [res |-> o, fc |-> IF f.ok THEN f.fc ELSE m.fc]

\* an argument of a call: given, or left to the parameter's default
Omitted == [omitted |-> TRUE]
Given(v) == [omitted |-> FALSE, val |-> v]

\* the value of a parameter of forward: the argument, or the default that
\* line 60 took from the globals when the class was defined
ArgOr(arg, name) == IF arg.omitted THEN ns[name] ELSE arg.val

Forward(hrv, pv, pv_inc, use_pv_inc) ==
    /\ net # None
    /\ net.calls < MaxCalls
    /\ LET r == ForwardOf(net, hrv, ArgOr(pv, "pv"), ArgOr(pv_inc, "pv_inc"),
                          ArgOr(use_pv_inc, "use_pv_inc"))
       IN  /\ net' = [net EXCEPT !.fc = r.fc, !.calls = net.calls + 1]
           /\ call' = [hrv |-> hrv,
                       pv |-> ArgOr(pv, "pv"),
                       use_pv_inc |-> ArgOr(use_pv_inc, "use_pv_inc"),
                       res |-> r.res, n |-> net.calls + 1]
    /\ UNCHANGED <<ns, module>>
    /\ UNCHANGED dsVars

-----------------------------------------------------------------------------
(* The inputs *)

\* 2020-07-01 00:00
Day0 == Ordinal(2020, 7, 1) * 1440

HM(h, m) == 60 * h + m

\* PV tables over {A, B} from 00:00 of the day: whole (to 23:55), or with
\* gaps (no row of A at 10:30, no row after 15:55); with or without the
\* angle column
PVTable(e, m, c) ==
    [from |-> Day0, to |-> Day0 + e, missing |-> m, sites |-> {"A", "B"},
     columns |-> c]

PVTables ==
    {PVTable(g[1], g[2], c) :
        g \in {<<HM(23, 55), {}>>, <<HM(15, 55), {<<Day0 + HM(10, 30), "A">>}>>},
        c \in {<<"power">>, <<"power", "angle_of_incidence_radians">>}}

FullPV ==
    [from |-> Day0 - 1440, to |-> Day0 + 1440 + HM(23, 55), missing |-> {},
     sites |-> {"A", "B"}, columns |-> <<"power">>]

\* imagery cubes of GridSize x GridSize pixels and one channel: over the
\* whole day; with gaps (no frame at 09:15, none after 12:55); without the
\* "data" variable
HRVCube(e, m, v) ==
    [from |-> Day0, to |-> Day0 + e, missing |-> m, H |-> GridSize,
     W |-> GridSize, C |-> 1, vars |-> v]

HRVCubes ==
    {HRVCube(HM(23, 55), {}, {"data"}),
     HRVCube(HM(12, 55), {Day0 + HM(9, 15)}, {"data"}),
     HRVCube(HM(23, 55), {}, {})}

FullHRV ==
    [from |-> Day0 - 1440, to |-> Day0 + 1440 + HM(23, 55), missing |-> {},
     H |-> GridSize, W |-> GridSize, C |-> 1, vars |-> {"data"}]

\* site_locations["hrv"]: the keys in their order, and (x, y) by key
SiteMap(keys, loc) == [keys |-> keys, loc |-> loc]

SiteMaps ==
    {SiteMap(<<"A", "B">>, ("A" :> <<1, 1>>) @@ ("B" :> <<5, 5>>)),
     SiteMap(<<"A", "B">>, ("A" :> <<GridSize, GridSize>>) @@ ("B" :> <<1, 1>>)),
     SiteMap(<<"B", "A">>, ("A" :> <<0, 0>>) @@ ("B" :> <<GridSize, GridSize - 1>>)),
     SiteMap(<<"A">>, ("A" :> <<GridSize, GridSize>>))}

\* sites: omitted, given in another order, naming a site no table knows
SiteLists == {<<>>, <<"B", "A">>, <<"A", "Z">>}

\* (start_date, end_date): a day; a day that no month has; a part that is
\* no number; a part too few
DatePairs ==
    {<<<<2020, 7, 1>>, <<2020, 7, 1>>>>,
     <<<<2020, 6, 31>>, <<2020, 7, 1>>>>,
     <<<<2020, 7, 1>>, <<2020, NonNumeric, 1>>>>,
     <<<<2020, 7>>, <<2020, 7, 1>>>>}

\* the dates the ranges of the anchor enumeration are drawn from
RangeDates ==
    {<<2019, 12, 31>>, <<2020, 1, 1>>, <<2020, 2, 28>>, <<2020, 2, 29>>,
     <<2020, 3, 1>>, <<2020, 6, 30>>, <<2020, 7, 1>>, <<2020, 7, 2>>}

Args(d, pv, hrv, map, sites, inc, crop, h) ==
    [pv |-> pv, hrv |-> hrv, site_locations |-> map, is_incident |-> inc,
     start_date |-> d[1], end_date |-> d[2], crop_size |-> crop,
     horizon |-> h, sites |-> sites]

NoTimes == [gen |-> NewGen, list |-> <<>>]

NetIdle ==
    /\ ns = {}
    /\ module = "unloaded"
    /\ net = None
    /\ call = None

DatasetIdle(ids) ==
    /\ self = None
    /\ ctor = "pending"
    /\ times = NoTimes
    /\ it = [i \in ids |-> NoIter]
    /\ finished = {}

-----------------------------------------------------------------------------
(* One consumer iterating one Dataset *)

Init ==
    /\ args \in {Args(d, pv, hrv, map, sites, inc, crop, h) :
                    d \in DatePairs, pv \in PVTables, hrv \in HRVCubes,
                    map \in SiteMaps, sites \in SiteLists,
                    inc \in BOOLEAN, crop \in 0..MaxCrop, h \in 1..MaxHorizon}
    /\ DatasetIdle({1})
    /\ NetIdle

Next ==
    \/ Construct
    \/ \E i \in DOMAIN it : Iter(i)
    \/ \E i \in DOMAIN it : AnchorStep(i)
    \/ \E i \in DOMAIN it : SiteStep(i)

Spec == Init /\ [][Next]_vars

(* A consumer listing the anchors of a date range *)

TimesInit ==
    /\ args \in {Args(<<s, e>>, FullPV, FullHRV,
                        SiteMap(<<"A">>, ("A" :> <<GridSize, GridSize>>)),
                        <<>>, FALSE, 1, 1) :
                    s \in RangeDates, e \in RangeDates}
    /\ DatasetIdle({1})
    /\ NetIdle

TimesNextStep ==
    \/ Construct
    \/ TimesNext

SpecTimes == TimesInit /\ [][TimesNextStep]_vars

-----------------------------------------------------------------------------
(* The forecast model: the file executed, a model built, forward calls *)

\* What the namespace binds before the file runs: nothing (the file
\* imported as a module), or the names the file reads and never binds: the
\* three defaults of line 60, F, predict_length.
Namespace(names, p) ==
    [n \in names |->
        IF n = "predict_length" THEN Int_(p)
        ELSE IF n = "F" THEN [t |-> "module"]
        ELSE PyNone]

Namespaces ==
    {Namespace(names, p) :
        names \in {{}, {"pv", "pv_inc", "use_pv_inc"},
                   {"pv", "pv_inc", "use_pv_inc", "F"},
                   {"pv", "pv_inc", "use_pv_inc", "F", "predict_length"}},
        p \in {24, 48}}

\* predict_length as given to the constructor
PredictLengths == {24, 48}

\* imagery batches (B, 12, c, c) with c = 1 or GridSize
HrvBatches == {<<b, 12, c, c>> : b \in 1..MaxBatch, c \in {1, GridSize}}

\* PV batches (B, 12) and (B, 12, 2)
PvBatches(b) == {Given(Tensor(<<b, 12>>)), Given(Tensor(<<b, 12, 2>>)), Omitted}

ModelInit ==
    /\ ns \in Namespaces
    /\ module = "unloaded"
    /\ net = None
    /\ call = None
    /\ args = None
    /\ DatasetIdle({1})

ModelNext ==
    \/ ExecModule
    \/ \E p \in PredictLengths : NewModel(p)
    \/ Eval
    \/ \E hrv \in HrvBatches : \E pv \in PvBatches(hrv[1]) :
         \E u \in {Given(Bool(FALSE)), Given(Bool(TRUE)), Omitted} :
            Forward(hrv, pv, IF pv.omitted THEN pv
                             ELSE Given(Tensor(<<hrv[1], 12, 2>>)), u)

SpecModel == ModelInit /\ [][ModelNext]_vars

(* Two consumers iterating one Dataset, their steps interleaved, each free to
   drop its generator and start again *)

ConcInit ==
    /\ args \in {Args(d, pv, FullHRV, map, <<>>, FALSE, crop, 1) :
                    d \in {<<<<2020, 7, 1>>, <<2020, 7, 1>>>>,
                           <<<<2020, 7, 1>>, <<2020, 6, 31>>>>},
                    pv \in {PVTable(HM(23, 55), {}, <<"power">>),
                            PVTable(HM(15, 55), {<<Day0 + HM(10, 30), "A">>},
                                    <<"power">>)},
                    map \in {SiteMap(<<"A", "B">>,
                                     ("A" :> <<GridSize, GridSize>>)
                                        @@ ("B" :> <<1, 1>>))},
                    crop \in 0..MaxCrop}
    /\ DatasetIdle({1, 2})
    /\ NetIdle

ConcNext ==
    \/ Construct
    \/ \E i \in DOMAIN it : Iter(i)
    \/ \E i \in DOMAIN it : Restart(i)
    \/ \E i \in DOMAIN it : AnchorStep(i)
    \/ \E i \in DOMAIN it : SiteStep(i)

SpecConc == ConcInit /\ [][ConcNext]_vars

-----------------------------------------------------------------------------
(* What the claims speak of *)

Iterators == {i \in DOMAIN it : it[i].pc # "none"}

\* the anchor of a sample: its first label is the anchor plus one hour
AnchorOf(sample) == Timestamp(sample.time_ids[1]) - 60

\* the number of samples of a site in a sequence of samples
CountOf(out, site) == Cardinality({k \in 1..Len(out) : out[k].site_id = site})

IsPrefix(a, b) == Len(a) <= Len(b) /\ SubSeq(b, 1, Len(a)) = a

\* the PV rows and the imagery frames of the windows of an anchor, counted
\* in the inputs
HistoryRows(t, site) == Cardinality(PVRows(self.pv, t, t + 55, site))
TargetRows(t, site) ==
    Cardinality(PVRows(self.pv, t + 60, t + 60 * self.horizon + 55, site))
Frames(t) ==
    Cardinality({u \in t..(t + 55) : /\ self.hrv.from <= u /\ u <= self.hrv.to
                                      /\ (u - self.hrv.from) % 5 = 0
                                      /\ u \notin self.hrv.missing})

\* the crop window [v - c, v + c) of a coordinate lies inside an axis of
\* size n
Inside(v, c, n) == 0 <= v - c /\ v + c <= n

SiteInside(site) ==
    /\ site \in DOMAIN self.site_locations.loc
    /\ Inside(self.site_locations.loc[site][1], self.crop_size, self.hrv.W)
    /\ Inside(self.site_locations.loc[site][2], self.crop_size, self.hrv.H)

\* a date string names a calendar day
GoodDate(d) ==
    /\ Len(d) = 3
    /\ \A k \in 1..3 : d[k] # NonNumeric
    /\ ValidDate(d[1], d[2], d[3])

\* a per-anchor lookup outside the try cannot succeed on these inputs
BadSelection ==
    \/ self.is_incident
        /\ ~({"power", "angle_of_incidence_radians"} \subseteq Range(self.pv.columns))
    \/ "data" \notin self.hrv.vars

\* the lengths of the crop of a site along x and y, by the slice bounds
CropFits(t, site) ==
    /\ site \in DOMAIN self.site_locations.loc
    /\ Frames(t) = 12
    /\ LET xy == self.site_locations.loc[site]
           c == self.crop_size
       IN  /\ SliceLen(xy[2] - c, xy[2] + c, self.hrv.H) = c
           /\ SliceLen(xy[1] - c, xy[1] + c, self.hrv.W) = c

\* the days of the configured range
DaysOfRange ==
    LET first == Ordinal(self.start_date[1], self.start_date[2], self.start_date[3])
        last == Ordinal(self.end_date[1], self.end_date[2], self.end_date[3])
    IN  IF first <= last THEN last - first + 1 ELSE 0

-----------------------------------------------------------------------------
(* The claims *)

\* C1 as stated: whatever lookup fails for an anchor and a site, no error
\* reaches the consumer: an iteration that got an anchor from the generator
\* of anchors never ends in an exception.
C1_NoErrorSurfaces ==
    \A i \in Iterators : ~(it[i].pc = "raised" /\ it[i].gen.pc = "yielded")

\* C1 as amended: a pair whose PV rows, imagery frames, location or crop
\* fail inside the try yields no sample and raises nothing, the log of pairs
\* goes on with the next site and then the next anchor to the last pair, and
\* the samples are exactly the pairs that passed; but a per-anchor selection
\* that fails outside the try (incidence mode on a PV table without the
\* power or angle column, an imagery dataset without "data") is raised to the
\* consumer at the first anchor.
C1_SkipAndContinue ==
    \A i \in Iterators :
        LET log == it[i].log
            out == it[i].out
            n == Len(self.sites)
            yields == {k \in 1..Len(log) : log[k].res = "yield"}
        IN  /\ \A k \in yields :
                  /\ HistoryRows(log[k].time, log[k].site) = 12
                  /\ TargetRows(log[k].time, log[k].site) = 12 * self.horizon
                  /\ CropFits(log[k].time, log[k].site)
            /\ Len(out) = Cardinality(yields)
            /\ \A j \in 1..Len(out) : \E k \in yields :
                  /\ log[k].time = AnchorOf(out[j])
                  /\ log[k].site = out[j].site_id
            /\ \A k \in 1..Len(log) :
                  /\ log[k].site = self.sites[((k - 1) % n) + 1]
                  /\ k > 1 => IF (k - 1) % n = 0
                              THEN log[k].time > log[k - 1].time
                              ELSE log[k].time = log[k - 1].time
            /\ it[i].pc = "done" => Len(log) = 9 * DaysOfRange * n
            /\ it[i].pc = "raised" =>
                  \/ it[i].gen.pc = "raised"
                  \/ it[i].gen.pc = "yielded" /\ BadSelection /\ log = <<>>
            /\ (BadSelection /\ it[i].gen.pc = "yielded") => it[i].pc = "raised"

\* a pair was skipped for missing PV rows and a later anchor yielded a sample
C1_Witness ==
    \E i \in Iterators : \E j, k \in 1..Len(it[i].log) :
        /\ j < k
        /\ it[i].log[j].res \in {"site_features", "site_targets", "pv_shape"}
        /\ HistoryRows(it[i].log[j].time, it[i].log[j].site) < 12
        /\ it[i].log[k].res = "yield"
        /\ it[i].log[k].time > it[i].log[j].time

\* C2 as stated: plain mode, crop_size 1, horizon 1, the one day 2020-07-01,
\* PV table and imagery covering the day: a site whose crop window lies
\* inside the grid yields 9 samples, a site outside the grid none.
C2_NineSamples ==
    \A i \in Iterators :
        (/\ it[i].pc = "done"
         /\ ~self.is_incident /\ self.crop_size = 1 /\ self.horizon = 1
         /\ self.start_date = <<2020, 7, 1>> /\ self.end_date = <<2020, 7, 1>>
         /\ self.pv = PVTable(HM(23, 55), {}, <<"power">>)
         /\ self.hrv = HRVCube(HM(23, 55), {}, {"data"}))
        => \A site \in Range(self.sites) \cap DOMAIN self.site_locations.loc :
              LET xy == self.site_locations.loc[site]
              IN  /\ SiteInside(site) /\ site \in self.pv.sites
                        => CountOf(it[i].out, site) = 9
                  /\ (xy[1] \notin 0..(self.hrv.W - 1) \/ xy[2] \notin 0..(self.hrv.H - 1))
                        => CountOf(it[i].out, site) = 0

\* C3: for start_date <= end_date _get_image_times yields (days in the
\* range) x 9 anchors, strictly increasing, each on the hour from 08:00 to
\* 16:00 of a day of the range, and ends; for start_date > end_date none.
C3_AnchorTimes ==
    ctor = "ok" =>
        LET first == Ordinal(self.start_date[1], self.start_date[2], self.start_date[3])
            last == Ordinal(self.end_date[1], self.end_date[2], self.end_date[3])
            days == IF first <= last THEN last - first + 1 ELSE 0
            list == times.list
        IN  /\ times.gen.pc \in {"created", "yielded", "exhausted"}
            /\ Len(list) <= 9 * days
            /\ times.gen.pc = "exhausted" => Len(list) = 9 * days
            /\ \A k \in 1..Len(list) :
                  /\ list[k] \div 1440 \in first..last
                  /\ TimeOf(list[k]) \in {60 * h : h \in 8..16}
                  /\ k > 1 => list[k - 1] < list[k]

\* the three days from 2020-02-28 to 2020-03-01 have been enumerated
C3_Witness ==
    /\ times.gen.pc = "exhausted"
    /\ self.start_date = <<2020, 2, 28>>
    /\ self.end_date = <<2020, 3, 1>>
    /\ Len(times.list) = 27

C5_EdgeSitesSkipped ==
    \A i \in Iterators : \A k \in 1..Len(it[i].out) :
        SiteInside(it[i].out[k].site_id)

\* C6 as stated: in either mode a pair whose PV rows are complete in both
\* windows (with the columns the mode reads) and whose crop check passes
\* yields a sample.
C6_BothModesYield ==
    \A i \in Iterators : \A k \in 1..Len(it[i].log) :
        LET e == it[i].log[k]
        IN  (/\ HistoryRows(e.time, e.site) = 12
             /\ TargetRows(e.time, e.site) = 12 * self.horizon
             /\ self.pv.columns = IF self.is_incident
                                  THEN <<"power", "angle_of_incidence_radians">>
                                  ELSE <<"power">>
             /\ CropFits(e.time, e.site))
            => e.res = "yield"

\* C7 as stated: the class can be defined and called, and forward with
\* use_pv_inc false, imagery (B, 12, c, c) and PV (B, 12) returns
\* (B, predict_length) with the predict_length given at construction.
C7_OutputShape ==
    /\ module \in {"unloaded", "loaded"}
    /\ (/\ call # None
        /\ ~Truthy(call.use_pv_inc)
        /\ call.pv = Tensor(<<call.hrv[1], 12>>))
       => /\ call.res.ok
          /\ call.res.shape = <<call.hrv[1], net.predict_length>>

\* C8 as stated: a date string that names no calendar day, or a sites list
\* with an id the location map lacks, makes the constructor raise.
C8_FailFast ==
    (/\ ctor # "pending"
     /\ \/ ~GoodDate(args.start_date)
        \/ ~GoodDate(args.end_date)
        \/ \E k \in 1..Len(args.sites) :
              args.sites[k] \notin DOMAIN args.site_locations.loc)
    => ctor # "ok"

\* C9 as stated: the fc layer is replaced by the first forward call at most,
\* never by a later one.
C9_AdaptsOnce ==
    [][(net # None /\ net'.fc # net.fc) => net.calls = 0]_vars

\* C10: iterating changes no field of the Dataset, and all iterations over
\* it, interleaved or restarted, yield the same sequence: any two are prefixes
\* of one another and of every finished one, anchors in chronological order
\* and the sites of an anchor in the configured order.
C10_Restartable ==
    /\ ctor = "ok" => self = DatasetInit(args).obj
    /\ Cardinality(finished) <= 1
    /\ \A i \in Iterators :
          LET out == it[i].out
              Pos(site) == CHOOSE q \in 1..Len(self.sites) : self.sites[q] = site
          IN  /\ \A j \in Iterators :
                    IsPrefix(out, it[j].out) \/ IsPrefix(it[j].out, out)
              /\ \A f \in finished : IsPrefix(out, f.out)
              /\ \A k \in 2..Len(out) :
                    \/ AnchorOf(out[k - 1]) < AnchorOf(out[k])
                    \/ /\ AnchorOf(out[k - 1]) = AnchorOf(out[k])
                       /\ Pos(out[k - 1].site_id) < Pos(out[k].site_id)

\* one consumer, on its second iteration, has yielded samples of two sites
\* while an iteration has finished and the other consumer is mid-way
C10_Witness ==
    /\ finished # {}
    /\ \E f \in finished : Len(f.out) > 9
    /\ \E i, j \in Iterators :
          /\ i # j
          /\ it[i].starts = 2 /\ Len(it[i].out) > 2
          /\ it[j].pc = "sites" /\ Len(it[j].out) > 1
          /\ Len(it[i].out) # Len(it[j].out)

=============================================================================
